---- MODULE Spec2Model ----
(***************************************************************************)
(* Recipe API: owner-scoped recipe, tag and ingredient endpoints.          *)
(*                                                                         *)
(* The state is the persistence store (recipe, tag and ingredient rows     *)
(* and the two many-to-many tables) together with the last request and     *)
(* its response.  Each action is one HTTP request handled to completion,   *)
(* or one direct ORM call of the kind the test suites use as fixtures.     *)
(***************************************************************************)
EXTENDS Integers, Sequences, FiniteSets, TLC

(***************************************************************************)
(* Bounds of the model.                                                    *)
(***************************************************************************)
MaxRecipes == 2
MaxAttrs == 2
MaxFixtures == 1
MaxNames == 2

(***************************************************************************)
(* Status codes the tests assert.                                          *)
(***************************************************************************)
HTTP_200_OK == 200
HTTP_201_CREATED == 201
HTTP_204_NO_CONTENT == 204
HTTP_400_BAD_REQUEST == 400
HTTP_401_UNAUTHORIZED == 401
HTTP_404_NOT_FOUND == 404

(***************************************************************************)
(* Accounts.  Anonymous is the request user of a request without a valid   *)
(* token.                                                                  *)
(***************************************************************************)
Users == {"user@example.com", "otheruser@example.com"}
Anonymous == "AnonymousUser"
Callers == Users \cup {Anonymous}

(***************************************************************************)
(* The two recipe attribute models.                                        *)
(***************************************************************************)
Tag == "tags"
Ingredient == "ingredients"
Kinds == {Tag, Ingredient}

NameList == <<"Dessert", "Vegan">>
Names == {NameList[i] : i \in 1..Len(NameList)}
NameRank(n) == CHOOSE i \in 1..Len(NameList) : NameList[i] = n


(***************************************************************************)
(* Recipe columns and the serializers' field lists.                        *)
(***************************************************************************)
RecipeColumns == {"user", "title", "time_minutes", "price", "description", "link",
                  "image"}
RecipeSerializerFields == {"id", "title", "time_minutes", "price", "link"}
RecipeSerializerReadOnly == {"id"}
RecipeDetailSerializerFieldsWithUser ==
    RecipeSerializerFields \cup {"description", "user"}
RecipeDetailSerializerFields == RecipeSerializerFields \cup {"description"}
RecipeRequired == {"title", "time_minutes", "price"}
Blank == ""
ColumnDefault(f) == IF f = "time_minutes" THEN 0 ELSE Blank

VARIABLES recipes, recipe_next, attrs, attr_next, recipe_attrs, response,
          accounts, user_call, command, database

db == <<recipes, recipe_next, attrs, attr_next, recipe_attrs>>
api == <<recipes, recipe_next, attrs, attr_next, recipe_attrs, response>>
core == <<accounts, user_call, command, database>>
vars == <<recipes, recipe_next, attrs, attr_next, recipe_attrs, response,
          accounts, user_call, command, database>>

(***************************************************************************)
(* Requests and responses.                                                 *)
(***************************************************************************)
PayloadKeys == {"title", "time_minutes", "price", "description", "link",
                "user", "tags", "ingredients", "name", "image"}

NoPayload ==
    [keys |-> {}, title |-> Blank, time_minutes |-> 0, price |-> Blank,
     description |-> Blank, link |-> Blank, user |-> Blank,
     tags |-> <<>>, ingredients |-> <<>>, name |-> Blank, image |-> Blank]

NoParams == [tags |-> {}, ingredients |-> {}, assigned_only |-> FALSE]

Response(op, kind, caller, target, status, result, payload, params) ==
    [op |-> op, kind |-> kind, caller |-> caller, target |-> target,
     status |-> status, result |-> result, payload |-> payload,
     params |-> params]

NoResponse == Response("none", "none", Anonymous, 0, 0, <<>>, NoPayload, NoParams)
OrmCall(kind, user, target) ==
    Response("orm", kind, user, target, 0, <<>>, NoPayload, NoParams)

Range(seq) == {seq[i] : i \in 1..Len(seq)}
Max(S) == CHOOSE x \in S : \A y \in S : y <= x

RECURSIVE OrderByIdDesc(_)
OrderByIdDesc_ascending(S) ==
    CHOOSE seq \in [1..Cardinality(S) -> S] :
        /\ Range(seq) = S
        /\ \A i \in 1..(Cardinality(S) - 1) : seq[i] < seq[i + 1]
OrderByIdDesc(S) ==
    IF S = {} THEN <<>> ELSE <<Max(S)>> \o OrderByIdDesc(S \ {Max(S)})

(***************************************************************************)
(* Orderings of a set of attribute ids by descending name; rows of equal   *)
(* name come in any order.                                                 *)
(***************************************************************************)
OrderByNameDesc(rows, S) ==
    {seq \in [1..Cardinality(S) -> S] :
        /\ Range(seq) = S
        /\ \A i \in 1..(Cardinality(S) - 1) :
              NameRank(rows[seq[i]].name) >= NameRank(rows[seq[i + 1]].name)}

(***************************************************************************)
(* Authentication and permission.                                          *)
(***************************************************************************)
IsAuthenticated_allow_any(caller) == TRUE
IsAuthenticated(caller) == caller \in Users

(***************************************************************************)
(* Owner-scoped querysets.                                                 *)
(***************************************************************************)
RecipeViewSet_get_queryset_unscoped(rows, user) == DOMAIN rows
RecipeViewSet_get_queryset(rows, user) ==
    {id \in DOMAIN rows : rows[id].user = user}

BaseRecipeAttrViewSet_get_queryset_unscoped(rows, user) == DOMAIN rows
BaseRecipeAttrViewSet_get_queryset(rows, user) ==
    {id \in DOMAIN rows : rows[id].user = user}

(***************************************************************************)
(* Serializers.                                                            *)
(***************************************************************************)
Writable == RecipeDetailSerializerFields \ RecipeSerializerReadOnly
ValidatedData(payload) == payload.keys \cap Writable

IsValid(payload, partial) ==
    /\ partial \/ RecipeRequired \subseteq payload.keys
    /\ \A f \in RecipeRequired \cap payload.keys : payload[f] # ColumnDefault(f)

RecipeSerializer_create(payload, user) ==
    [f \in RecipeColumns |->
        IF f = "user" THEN user
        ELSE IF f \in ValidatedData(payload) THEN payload[f]
        ELSE ColumnDefault(f)]

UpdatedRow_reset_unnamed(row, payload) ==
    [f \in RecipeColumns |->
        IF f \in ValidatedData(payload) THEN payload[f]
        ELSE IF f = "user" THEN row[f] ELSE ColumnDefault(f)]
UpdatedRow(row, payload) ==
    [f \in RecipeColumns |->
        IF f \in ValidatedData(payload) THEN payload[f] ELSE row[f]]

RECURSIVE CreateEach(_, _, _, _)
CreateEach(store, kind, user, names) ==
    IF names = <<>> THEN store
    ELSE CreateEach(
            [store EXCEPT
                !.attrs[kind] =
                    (store.attr_next[kind] :> [user |-> user, name |-> Head(names)]) @@ @,
                !.attr_next[kind] = @ + 1],
            kind, user, Tail(names))

RecipeSerializer_update_create_each(store, id, payload) ==
    LET saved == [store EXCEPT !.recipes[id] = UpdatedRow(@, payload)]
        owner == store.recipes[id].user
        tagged == IF Tag \in payload.keys
                  THEN CreateEach(saved, Tag, owner, payload[Tag]) ELSE saved
    IN  IF Ingredient \in payload.keys
        THEN CreateEach(tagged, Ingredient, owner, payload[Ingredient]) ELSE tagged

RecipeSerializer_update(store, id, payload) ==
    [store EXCEPT !.recipes[id] = UpdatedRow(@, payload)]

perform_create_payload_user(store, payload, user) ==
    [store EXCEPT
        !.recipes = (store.recipe_next :>
                        RecipeSerializer_create(payload,
                            IF "user" \in payload.keys THEN payload.user ELSE user)) @@ @,
        !.recipe_next = @ + 1]
perform_create(store, payload, user) ==
    [store EXCEPT
        !.recipes = (store.recipe_next :> RecipeSerializer_create(payload, user)) @@ @,
        !.recipe_next = @ + 1]

AttrSerializerFields == {"id", "name"}
AttrIsValid(payload, partial) ==
    /\ partial \/ "name" \in payload.keys
    /\ "name" \in payload.keys => payload.name # Blank

AttrSerializer_update(row, payload) ==
    IF "name" \in payload.keys \cap AttrSerializerFields
    THEN [row EXCEPT !.name = payload.name] ELSE row

(***************************************************************************)
(* Row deletion; the many-to-many rows of a deleted row go with it.        *)
(***************************************************************************)
Without(rows, id) == [i \in DOMAIN rows \ {id} |-> rows[i]]

perform_destroy(store, id) ==
    [store EXCEPT
        !.recipes = Without(@, id),
        !.recipe_attrs = [k \in Kinds |-> {l \in @[k] : l[1] # id}]]

attr_perform_destroy(store, kind, id) ==
    [store EXCEPT
        !.attrs[kind] = Without(@, id),
        !.recipe_attrs[kind] = {l \in @ : l[2] # id}]

Store ==
    [recipes |-> recipes, recipe_next |-> recipe_next, attrs |-> attrs,
     attr_next |-> attr_next, recipe_attrs |-> recipe_attrs]

(***************************************************************************)
(* User accounts (core app).  An email is a sequence of characters.        *)
(***************************************************************************)
MaxEmailLen == 3
MaxAccounts == 1

EmailAlphabet == {"a", "A", "@"}
Emails == UNION {[1..n -> EmailAlphabet] : n \in 0..MaxEmailLen}

lower(c) == IF c = "A" THEN "a" ELSE c

\* Position of the last "@" of an email, 0 when it has none.
LastAt(email) ==
    LET ats == {i \in 1..Len(email) : email[i] = "@"}
    IN  IF ats = {} THEN 0 ELSE Max(ats)

normalize_email_lower_all(email) == [i \in 1..Len(email) |-> lower(email[i])]
normalize_email(email) ==
    IF LastAt(email) = 0
    THEN email
    ELSE [i \in 1..Len(email) |->
             IF i > LastAt(email) THEN lower(email[i]) ELSE email[i]]

\* The last create_user call: its argument, what it raised, the user it returned.
UserCall(email, raised, user) ==
    [email |-> email, raised |-> raised, user |-> user, called |-> TRUE]
NoUserCall == [email |-> <<>>, raised |-> "none", user |-> <<>>, called |-> FALSE]

create_user_accept_empty(email) ==
    IF normalize_email(email) \in accounts
    THEN /\ user_call' = UserCall(email, "IntegrityError", <<>>)
         /\ UNCHANGED accounts
    ELSE /\ accounts' = accounts \cup {normalize_email(email)}
         /\ user_call' = UserCall(email, "none", normalize_email(email))
create_user(email) ==
    IF email = <<>>
    THEN /\ user_call' = UserCall(email, "ValueError", <<>>)
         /\ UNCHANGED accounts
    ELSE IF normalize_email(email) \in accounts
    THEN /\ user_call' = UserCall(email, "IntegrityError", <<>>)
         /\ UNCHANGED accounts
    ELSE /\ accounts' = accounts \cup {normalize_email(email)}
         /\ user_call' = UserCall(email, "none", normalize_email(email))

(***************************************************************************)
(* The wait_for_db management command.                                     *)
(***************************************************************************)
MaxChecks == 4

WAITING == "Waiting for database..."
UNAVAILABLE == "Database unavailable, waiting 1 second..."
AVAILABLE == "Database available!"

Retried_django_only == {"OperationalError"}
Retried == {"Psycopg2OpError", "OperationalError"}
NotRetried == {"Exception"}

\* What self.check(databases=['default']) can do.
CheckOutcomes ==
    (IF database = "up" THEN {"ok"} ELSE {"Psycopg2OpError", "OperationalError"})
        \cup NotRetried

InitialCommand == [pc |-> "handle", dp_up |-> FALSE, stdout |-> <<>>, checks |-> <<>>]

Commit(store) ==
    /\ recipes' = store.recipes
    /\ recipe_next' = store.recipe_next
    /\ attrs' = store.attrs
    /\ attr_next' = store.attr_next
    /\ recipe_attrs' = store.recipe_attrs

Init ==
    /\ recipes = << >>
    /\ recipe_next = 1
    /\ attrs = [k \in Kinds |-> << >>]
    /\ attr_next = [k \in Kinds |-> 1]
    /\ recipe_attrs = [k \in Kinds |-> {}]
    /\ response = NoResponse
    /\ accounts = {}
    /\ user_call = NoUserCall
    /\ command = InitialCommand
    /\ database = "down"

(***************************************************************************)
(* Recipe endpoints.                                                       *)
(***************************************************************************)
RecipeList(caller, params) ==
    /\ UNCHANGED db
    /\ response' =
         IF ~IsAuthenticated(caller)
         THEN Response("list", "recipes", caller, 0, HTTP_401_UNAUTHORIZED,
                       <<>>, NoPayload, params)
         ELSE Response("list", "recipes", caller, 0, HTTP_200_OK,
                       OrderByIdDesc(RecipeViewSet_get_queryset(recipes, caller)),
                       NoPayload, params)

RecipeRetrieve(caller, id) ==
    /\ UNCHANGED db
    /\ response' =
         IF ~IsAuthenticated(caller)
         THEN Response("retrieve", "recipes", caller, id, HTTP_401_UNAUTHORIZED,
                       <<>>, NoPayload, NoParams)
         ELSE IF id \notin RecipeViewSet_get_queryset(recipes, caller)
         THEN Response("retrieve", "recipes", caller, id, HTTP_404_NOT_FOUND,
                       <<>>, NoPayload, NoParams)
         ELSE Response("retrieve", "recipes", caller, id, HTTP_200_OK,
                       <<id>>, NoPayload, NoParams)

RecipeCreate(caller, payload) ==
    IF ~IsAuthenticated(caller)
    THEN /\ UNCHANGED db
         /\ response' = Response("create", "recipes", caller, 0,
                                 HTTP_401_UNAUTHORIZED, <<>>, payload, NoParams)
    ELSE IF ~IsValid(payload, FALSE)
    THEN /\ UNCHANGED db
         /\ response' = Response("create", "recipes", caller, 0,
                                 HTTP_400_BAD_REQUEST, <<>>, payload, NoParams)
    ELSE /\ Commit(perform_create(Store, payload, caller))
         /\ response' = Response("create", "recipes", caller, recipe_next,
                                 HTTP_201_CREATED, <<recipe_next>>, payload, NoParams)

RecipeUpdate_save_then_validate(caller, id, payload, partial) ==
    LET op == IF partial THEN "partial_update" ELSE "update" IN
    IF ~IsAuthenticated(caller)
    THEN /\ UNCHANGED db
         /\ response' = Response(op, "recipes", caller, id,
                                 HTTP_401_UNAUTHORIZED, <<>>, payload, NoParams)
    ELSE IF id \notin RecipeViewSet_get_queryset(recipes, caller)
    THEN /\ UNCHANGED db
         /\ response' = Response(op, "recipes", caller, id,
                                 HTTP_404_NOT_FOUND, <<>>, payload, NoParams)
    ELSE /\ Commit(RecipeSerializer_update_create_each(Store, id, payload))
         /\ response' = Response(op, "recipes", caller, id,
                                 IF IsValid(payload, partial)
                                 THEN HTTP_200_OK ELSE HTTP_400_BAD_REQUEST,
                                 <<id>>, payload, NoParams)

RecipeUpdate(caller, id, payload, partial) ==
    LET op == IF partial THEN "partial_update" ELSE "update" IN
    IF ~IsAuthenticated(caller)
    THEN /\ UNCHANGED db
         /\ response' = Response(op, "recipes", caller, id,
                                 HTTP_401_UNAUTHORIZED, <<>>, payload, NoParams)
    ELSE IF id \notin RecipeViewSet_get_queryset(recipes, caller)
    THEN /\ UNCHANGED db
         /\ response' = Response(op, "recipes", caller, id,
                                 HTTP_404_NOT_FOUND, <<>>, payload, NoParams)
    ELSE IF ~IsValid(payload, partial)
    THEN /\ UNCHANGED db
         /\ response' = Response(op, "recipes", caller, id,
                                 HTTP_400_BAD_REQUEST, <<>>, payload, NoParams)
    ELSE /\ Commit(RecipeSerializer_update(Store, id, payload))
         /\ response' = Response(op, "recipes", caller, id,
                                 HTTP_200_OK, <<id>>, payload, NoParams)

(***************************************************************************)
(* POST /recipes/{id}/upload-image/.  RecipeViewSet declares no action of  *)
(* that name, so the router has no route for the path: the URL resolver    *)
(* answers not-found before any authentication, lookup or validation.      *)
(***************************************************************************)
RecipeUploadImage(caller, id, payload) ==
    /\ UNCHANGED db
    /\ response' = Response("upload_image", "recipes", caller, id,
                            HTTP_404_NOT_FOUND, <<>>, payload, NoParams)

RecipeDestroy(caller, id) ==
    IF ~IsAuthenticated(caller)
    THEN /\ UNCHANGED db
         /\ response' = Response("destroy", "recipes", caller, id,
                                 HTTP_401_UNAUTHORIZED, <<>>, NoPayload, NoParams)
    ELSE IF id \notin RecipeViewSet_get_queryset(recipes, caller)
    THEN /\ UNCHANGED db
         /\ response' = Response("destroy", "recipes", caller, id,
                                 HTTP_404_NOT_FOUND, <<>>, NoPayload, NoParams)
    ELSE /\ Commit(perform_destroy(Store, id))
         /\ response' = Response("destroy", "recipes", caller, id,
                                 HTTP_204_NO_CONTENT, <<>>, NoPayload, NoParams)

(***************************************************************************)
(* Tag and ingredient endpoints: list, update and destroy.                 *)
(***************************************************************************)
AttrList(kind, caller, params) ==
    /\ UNCHANGED db
    /\ IF ~IsAuthenticated(caller)
       THEN response' = Response("list", kind, caller, 0, HTTP_401_UNAUTHORIZED,
                                 <<>>, NoPayload, params)
       ELSE \E seq \in OrderByNameDesc(attrs[kind],
                          BaseRecipeAttrViewSet_get_queryset(attrs[kind], caller)) :
               response' = Response("list", kind, caller, 0, HTTP_200_OK,
                                    seq, NoPayload, params)

AttrUpdate(kind, caller, id, payload, partial) ==
    LET op == IF partial THEN "partial_update" ELSE "update" IN
    IF ~IsAuthenticated(caller)
    THEN /\ UNCHANGED db
         /\ response' = Response(op, kind, caller, id,
                                 HTTP_401_UNAUTHORIZED, <<>>, payload, NoParams)
    ELSE IF id \notin BaseRecipeAttrViewSet_get_queryset(attrs[kind], caller)
    THEN /\ UNCHANGED db
         /\ response' = Response(op, kind, caller, id,
                                 HTTP_404_NOT_FOUND, <<>>, payload, NoParams)
    ELSE IF ~AttrIsValid(payload, partial)
    THEN /\ UNCHANGED db
         /\ response' = Response(op, kind, caller, id,
                                 HTTP_400_BAD_REQUEST, <<>>, payload, NoParams)
    ELSE /\ attrs' = [attrs EXCEPT ![kind][id] = AttrSerializer_update(@, payload)]
         /\ UNCHANGED <<recipes, recipe_next, attr_next, recipe_attrs>>
         /\ response' = Response(op, kind, caller, id,
                                 HTTP_200_OK, <<id>>, payload, NoParams)

AttrDestroy(kind, caller, id) ==
    IF ~IsAuthenticated(caller)
    THEN /\ UNCHANGED db
         /\ response' = Response("destroy", kind, caller, id,
                                 HTTP_401_UNAUTHORIZED, <<>>, NoPayload, NoParams)
    ELSE IF id \notin BaseRecipeAttrViewSet_get_queryset(attrs[kind], caller)
    THEN /\ UNCHANGED db
         /\ response' = Response("destroy", kind, caller, id,
                                 HTTP_404_NOT_FOUND, <<>>, NoPayload, NoParams)
    ELSE /\ Commit(attr_perform_destroy(Store, kind, id))
         /\ response' = Response("destroy", kind, caller, id,
                                 HTTP_204_NO_CONTENT, <<>>, NoPayload, NoParams)

(***************************************************************************)
(* Direct ORM calls, as the test suites make them to set rows up:          *)
(* Tag.objects.create(user=, name=) and recipe.tags.add(tag), and the      *)
(* same for ingredients.                                                   *)
(***************************************************************************)
OrmCreateAttr(kind, user, name) ==
    /\ attrs' = [attrs EXCEPT ![kind] =
                    (attr_next[kind] :> [user |-> user, name |-> name]) @@ @]
    /\ attr_next' = [attr_next EXCEPT ![kind] = @ + 1]
    /\ UNCHANGED <<recipes, recipe_next, recipe_attrs>>
    /\ response' = OrmCall(kind, user, attr_next[kind])

OrmAddAttr(kind, rid, aid) ==
    /\ rid \in DOMAIN recipes
    /\ aid \in DOMAIN attrs[kind]
    /\ recipes[rid].user = attrs[kind][aid].user
    /\ <<rid, aid>> \notin recipe_attrs[kind]
    /\ recipe_attrs' = [recipe_attrs EXCEPT ![kind] = @ \cup {<<rid, aid>>}]
    /\ UNCHANGED <<recipes, recipe_next, attrs, attr_next>>
    /\ response' = OrmCall(kind, recipes[rid].user, rid)

(***************************************************************************)
(* wait_for_db: one step per statement group of Command.handle.            *)
(***************************************************************************)
wait_for_db_handle ==
    /\ command.pc = "handle"
    /\ command' = [command EXCEPT !.pc = "check", !.dp_up = FALSE,
                                  !.stdout = Append(@, WAITING)]
    /\ UNCHANGED database

wait_for_db_check(outcome) ==
    /\ command.pc = "check"
    /\ ~command.dp_up
    /\ outcome \in CheckOutcomes
    /\ IF outcome = "ok"
       THEN command' = [command EXCEPT !.pc = "done", !.dp_up = TRUE,
                                       !.checks = Append(@, outcome),
                                       !.stdout = Append(@, AVAILABLE)]
       ELSE IF outcome \in Retried
       THEN command' = [command EXCEPT !.pc = "sleep",
                                       !.checks = Append(@, outcome),
                                       !.stdout = Append(@, UNAVAILABLE)]
       ELSE command' = [command EXCEPT !.pc = "failed",
                                       !.checks = Append(@, outcome)]
    /\ UNCHANGED database

wait_for_db_sleep ==
    /\ command.pc = "sleep"
    /\ command' = [command EXCEPT !.pc = "check"]
    /\ UNCHANGED database

\* The database server finishes starting; it stays available afterwards.
DatabaseStarts ==
    /\ database = "down"
    /\ database' = "up"
    /\ UNCHANGED command

(***************************************************************************)
(* Request inputs.                                                         *)
(***************************************************************************)
Titles == {"Curry", "Pomelo"}
NameSeqs == UNION {[1..n -> Names] : n \in 0..MaxNames}

BasicPayload(title) ==
    [NoPayload EXCEPT
        !.keys = {"title", "time_minutes", "price", "description", "link"},
        !.title = title, !.time_minutes = 10, !.price = "5.20",
        !.description = "Test recipe", !.link = "http://test.com/recipe.pdf"]

WithNames(payload, kind, names) ==
    [payload EXCEPT !.keys = @ \cup {kind}, ![kind] = names]

WithUser(payload, user) ==
    [payload EXCEPT !.keys = @ \cup {"user"}, !.user = user]

TitlePayload(title) == [NoPayload EXCEPT !.keys = {"title"}, !.title = title]
NamePayload(name) == [NoPayload EXCEPT !.keys = {"name"}, !.name = name]

\* Image payloads: a decodable JPEG, a string that is no image, and none.
JPEG == "image.jpg"
ImagePayload(image) == [NoPayload EXCEPT !.keys = {"image"}, !.image = image]
ImagePayloads == {ImagePayload(JPEG), ImagePayload("str"), NoPayload}
IsDecodableImage(payload) == "image" \in payload.keys /\ payload.image = JPEG

\* Recipe payloads over two values per varying field; a key that is absent
\* leaves its field at the empty value of NoPayload.
RecipeFields == {"title", "time_minutes", "price", "description", "link"}
Minutes == {10, 30}
Links == {"http://test.com/recipe.pdf", "http://example.com/new-recipe-link"}
FieldPayloads ==
    {[NoPayload EXCEPT
         !.keys = K,
         !.title = IF "title" \in K THEN t ELSE @,
         !.time_minutes = IF "time_minutes" \in K THEN m ELSE @,
         !.price = IF "price" \in K THEN "5.20" ELSE @,
         !.description = IF "description" \in K THEN "Test recipe" ELSE @,
         !.link = IF "link" \in K THEN l ELSE @] :
        K \in SUBSET RecipeFields, t \in Titles, m \in Minutes, l \in Links}
CreatePayloads == {p \in FieldPayloads : RecipeRequired \subseteq p.keys}

Other(kind) == IF kind = Tag THEN Ingredient ELSE Tag
OneKind(kind) == attr_next[Other(kind)] = 1

(***************************************************************************)
(* Recipe create, read, update and delete by two users.                    *)
(***************************************************************************)
Next ==
    \/ \E c \in Users : RecipeList(c, NoParams)
    \/ \E c \in Users, id \in 1..MaxRecipes : RecipeRetrieve(c, id)
    \/ \E c \in Users, t \in Titles :
          /\ recipe_next <= MaxRecipes
          /\ RecipeCreate(c, BasicPayload(t))
    \/ \E c \in Users, u \in Users :
          /\ recipe_next <= MaxRecipes
          /\ RecipeCreate(c, WithUser(BasicPayload("Curry"), u))
    \/ \E c \in Users, id \in 1..MaxRecipes, t \in Titles, partial \in BOOLEAN :
          RecipeUpdate(c, id, IF partial THEN TitlePayload(t) ELSE BasicPayload(t),
                       partial)
    \/ \E c \in Users, id \in 1..MaxRecipes, u \in Users, partial \in BOOLEAN :
          RecipeUpdate(c, id,
                       WithUser(IF partial THEN NoPayload ELSE BasicPayload("Curry"), u),
                       partial)
    \/ \E c \in Users, id \in 1..MaxRecipes : RecipeDestroy(c, id)

Spec == Init /\ [][Next /\ UNCHANGED core]_vars

(***************************************************************************)
(* Update and delete requests by two users on recipes that carry tags.     *)
(***************************************************************************)
NextCross ==
    \/ \E c \in Users :
          /\ recipe_next <= MaxFixtures
          /\ RecipeCreate(c, BasicPayload("Curry"))
    \/ \E u \in Users :
          /\ attr_next[Tag] <= MaxFixtures
          /\ OrmCreateAttr(Tag, u, "Vegan")
    \/ \E rid \in 1..MaxFixtures, aid \in 1..MaxFixtures : OrmAddAttr(Tag, rid, aid)
    \/ \E c \in Users, id \in 1..MaxFixtures, t \in Titles, partial \in BOOLEAN :
          RecipeUpdate(c, id, IF partial THEN TitlePayload(t) ELSE BasicPayload(t),
                       partial)
    \/ \E c \in Users, id \in 1..MaxFixtures : RecipeDestroy(c, id)

SpecCross == Init /\ [][NextCross /\ UNCHANGED core]_vars

(***************************************************************************)
(* Tag and ingredient list, update and delete by two users, on rows set    *)
(* up by direct ORM calls.  The two tables are independent, so the rows    *)
(* of a run are all of one kind.                                           *)
(***************************************************************************)
NextAttr ==
    \/ \E k \in Kinds, u \in Users, n \in Names :
          /\ OneKind(k)
          /\ attr_next[k] <= MaxAttrs
          /\ OrmCreateAttr(k, u, n)
    \/ \E k \in Kinds, c \in Users : AttrList(k, c, NoParams)
    \/ \E k \in Kinds, c \in Users, id \in 1..MaxAttrs, n \in Names,
          partial \in BOOLEAN : AttrUpdate(k, c, id, NamePayload(n), partial)
    \/ \E k \in Kinds, c \in Users, id \in 1..MaxAttrs : AttrDestroy(k, c, id)

SpecAttr == Init /\ [][NextAttr /\ UNCHANGED core]_vars

(***************************************************************************)
(* Recipe create and update requests whose payloads name tags or           *)
(* ingredients, on rows set up by direct ORM calls.                        *)
(***************************************************************************)
NextAssoc ==
    \/ \E k \in Kinds, u \in Users, n \in Names :
          /\ OneKind(k)
          /\ attr_next[k] <= MaxAttrs
          /\ OrmCreateAttr(k, u, n)
    \/ \E k \in Kinds, rid \in 1..MaxFixtures, aid \in 1..MaxAttrs :
          OrmAddAttr(k, rid, aid)
    \/ \E c \in Users :
          /\ recipe_next <= MaxFixtures
          /\ RecipeCreate(c, BasicPayload("Curry"))
    \/ \E c \in Users, k \in Kinds, ns \in NameSeqs :
          /\ recipe_next <= MaxFixtures
          /\ RecipeCreate(c, WithNames(BasicPayload("Curry"), k, ns))
    \/ \E c \in Users, id \in 1..MaxFixtures, k \in Kinds, ns \in NameSeqs :
          RecipeUpdate(c, id, WithNames(NoPayload, k, ns), TRUE)
    \/ \E c \in Users, id \in 1..MaxFixtures, k \in Kinds, ns \in NameSeqs :
          RecipeUpdate(c, id, WithNames(BasicPayload("Pomelo"), k, ns), FALSE)

SpecAssoc == Init /\ [][NextAssoc /\ UNCHANGED core]_vars

(***************************************************************************)
(* Repeated recipe updates whose payloads name tags or ingredients.        *)
(***************************************************************************)
NextIdem ==
    \/ \E k \in Kinds, u \in Users, n \in Names :
          /\ OneKind(k)
          /\ attr_next[k] <= MaxFixtures
          /\ OrmCreateAttr(k, u, n)
    \/ \E c \in Users :
          /\ recipe_next <= MaxFixtures
          /\ RecipeCreate(c, BasicPayload("Curry"))
    \/ \E c \in Users, id \in 1..MaxFixtures, k \in Kinds, ns \in NameSeqs :
          RecipeUpdate(c, id, WithNames(NoPayload, k, ns), TRUE)

SpecIdem == Init /\ [][NextIdem /\ UNCHANGED core]_vars

(***************************************************************************)
(* List requests with filters, on recipes, tags and ingredients set up by  *)
(* direct ORM calls.                                                       *)
(***************************************************************************)
RecipeListParams ==
    {[NoParams EXCEPT !.tags = ts, !.ingredients = is] :
        ts \in SUBSET (1..MaxAttrs), is \in SUBSET (1..MaxFixtures)}

AttrListParams == {[NoParams EXCEPT !.assigned_only = b] : b \in BOOLEAN}

NextFilter ==
    \/ \E c \in Users :
          /\ recipe_next <= MaxRecipes
          /\ RecipeCreate(c, BasicPayload("Curry"))
    \/ \E u \in Users :
          /\ attr_next[Tag] <= MaxAttrs
          /\ OrmCreateAttr(Tag, u, "Vegan")
    \/ \E u \in Users :
          /\ attr_next[Ingredient] <= MaxFixtures
          /\ OrmCreateAttr(Ingredient, u, "Dessert")
    \/ \E rid \in 1..MaxRecipes, aid \in 1..MaxAttrs : OrmAddAttr(Tag, rid, aid)
    \/ \E rid \in 1..MaxRecipes, aid \in 1..MaxFixtures :
          OrmAddAttr(Ingredient, rid, aid)
    \/ \E c \in Users, q \in RecipeListParams : RecipeList(c, q)
    \/ \E k \in Kinds, c \in Users, q \in AttrListParams : AttrList(k, c, q)

SpecFilter == Init /\ [][NextFilter /\ UNCHANGED core]_vars

(***************************************************************************)
(* Every endpoint, called with and without authentication.                 *)
(***************************************************************************)
AuthCallers == {"user@example.com", Anonymous}

NextAuth ==
    \/ \E c \in AuthCallers : RecipeList(c, NoParams)
    \/ \E c \in AuthCallers, id \in 1..MaxFixtures : RecipeRetrieve(c, id)
    \/ \E c \in AuthCallers :
          /\ recipe_next <= MaxFixtures
          /\ RecipeCreate(c, BasicPayload("Curry"))
    \/ \E c \in AuthCallers, id \in 1..MaxFixtures, partial \in BOOLEAN :
          RecipeUpdate(c, id,
                       IF partial THEN TitlePayload("Pomelo") ELSE BasicPayload("Pomelo"),
                       partial)
    \/ \E c \in AuthCallers, id \in 1..MaxFixtures : RecipeDestroy(c, id)
    \/ \E k \in Kinds, u \in AuthCallers \cap Users :
          /\ OneKind(k)
          /\ attr_next[k] <= MaxFixtures
          /\ OrmCreateAttr(k, u, "Vegan")
    \/ \E k \in Kinds, rid \in 1..MaxFixtures, aid \in 1..MaxFixtures :
          OrmAddAttr(k, rid, aid)
    \/ \E k \in Kinds, c \in AuthCallers : AttrList(k, c, NoParams)
    \/ \E k \in Kinds, c \in AuthCallers, id \in 1..MaxFixtures, partial \in BOOLEAN :
          AttrUpdate(k, c, id, NamePayload("Dessert"), partial)
    \/ \E k \in Kinds, c \in AuthCallers, id \in 1..MaxFixtures : AttrDestroy(k, c, id)

SpecAuth == Init /\ [][NextAuth /\ UNCHANGED core]_vars

(***************************************************************************)
(* Recipe writes that are refused: payloads that name tags or ingredients  *)
(* and lack required fields, sent to recipes that have associations.       *)
(***************************************************************************)
AtomicNames == {<<"Vegan">>, <<"Dessert", "Vegan">>}

NextAtomic ==
    \/ \E k \in Kinds, u \in Users :
          /\ OneKind(k)
          /\ attr_next[k] <= MaxFixtures
          /\ OrmCreateAttr(k, u, "Vegan")
    \/ \E k \in Kinds, rid \in 1..MaxFixtures, aid \in 1..MaxFixtures :
          OrmAddAttr(k, rid, aid)
    \/ \E c \in Users :
          /\ recipe_next <= MaxFixtures
          /\ RecipeCreate(c, BasicPayload("Curry"))
    \/ \E c \in Users, k \in Kinds, ns \in AtomicNames :
          /\ recipe_next <= MaxFixtures
          /\ RecipeCreate(c, WithNames(TitlePayload("Pomelo"), k, ns))
    \/ \E c \in Callers, id \in 1..MaxFixtures, k \in Kinds, ns \in AtomicNames,
          partial \in BOOLEAN :
          RecipeUpdate(c, id, WithNames(TitlePayload("Pomelo"), k, ns), partial)

SpecAtomic == Init /\ [][NextAtomic /\ UNCHANGED core]_vars

(***************************************************************************)
(* Image uploads to recipes of two users.                                  *)
(***************************************************************************)
NextImage ==
    \/ \E c \in Users :
          /\ recipe_next <= MaxRecipes
          /\ RecipeCreate(c, BasicPayload("Curry"))
    \/ \E c \in Callers, id \in 1..MaxRecipes : RecipeRetrieve(c, id)
    \/ \E c \in Callers, id \in 1..MaxRecipes, p \in ImagePayloads :
          RecipeUploadImage(c, id, p)

SpecImage == Init /\ [][NextImage /\ UNCHANGED core]_vars

(***************************************************************************)
(* Lists of recipes, tags and ingredients created in any order of names.   *)
(***************************************************************************)
NextOrder ==
    \/ \E c \in Users :
          /\ recipe_next <= MaxRecipes
          /\ RecipeCreate(c, BasicPayload("Curry"))
    \/ \E c \in Users : RecipeList(c, NoParams)
    \/ \E k \in Kinds, u \in Users, n \in Names :
          /\ OneKind(k)
          /\ attr_next[k] <= MaxAttrs
          /\ OrmCreateAttr(k, u, n)
    \/ \E k \in Kinds, c \in Users, id \in 1..MaxAttrs, n \in Names :
          AttrUpdate(k, c, id, NamePayload(n), TRUE)
    \/ \E k \in Kinds, c \in Users : AttrList(k, c, NoParams)

SpecOrder == Init /\ [][NextOrder /\ UNCHANGED core]_vars

(***************************************************************************)
(* Recipe creation by two users, with every combination of field values    *)
(* and with payloads that name a user.                                     *)
(***************************************************************************)
NextCreate ==
    \/ \E c \in Users, p \in CreatePayloads :
          /\ recipe_next <= MaxFixtures
          /\ RecipeCreate(c, p)
    \/ \E c \in Users, p \in CreatePayloads, u \in Users :
          /\ recipe_next <= MaxFixtures
          /\ RecipeCreate(c, WithUser(p, u))
    \/ \E c \in Users, id \in 1..MaxFixtures : RecipeRetrieve(c, id)

SpecCreate == Init /\ [][NextCreate /\ UNCHANGED core]_vars

(***************************************************************************)
(* PATCH requests of one user to their recipes, with every subset of the   *)
(* fields in the payload, and to their tags or ingredients.  The recipe    *)
(* and the tag / ingredient tables are exercised in separate runs.         *)
(***************************************************************************)
NextPatch ==
    \/ \E c \in AuthCallers \cap Users :
          /\ recipe_next <= MaxFixtures
          /\ attr_next = [k \in Kinds |-> 1]
          /\ RecipeCreate(c, BasicPayload("Curry"))
    \/ \E c \in AuthCallers \cap Users, id \in 1..MaxFixtures, p \in FieldPayloads :
          RecipeUpdate(c, id, p, TRUE)
    \/ \E c \in AuthCallers \cap Users, id \in 1..MaxFixtures, u \in Users :
          RecipeUpdate(c, id, WithUser(TitlePayload("Pomelo"), u), TRUE)
    \/ \E k \in Kinds, u \in AuthCallers \cap Users :
          /\ recipe_next = 1
          /\ OneKind(k)
          /\ attr_next[k] <= MaxAttrs
          /\ OrmCreateAttr(k, u, "Vegan")
    \/ \E k \in Kinds, c \in AuthCallers \cap Users, id \in 1..MaxAttrs,
          p \in {NamePayload(n) : n \in Names} \cup {NoPayload} :
          AttrUpdate(k, c, id, p, TRUE)

SpecPatch == Init /\ [][NextPatch /\ UNCHANGED core]_vars

(***************************************************************************)
(* Renames and deletes of tags and ingredients next to recipe writes that  *)
(* name them.  The fixtures give no user two records of one name.          *)
(***************************************************************************)
NextUnique ==
    \/ \E k \in Kinds, u \in Users, n \in Names :
          /\ OneKind(k)
          /\ attr_next[k] <= MaxAttrs
          /\ \A a \in DOMAIN attrs[k] : ~(attrs[k][a].user = u /\ attrs[k][a].name = n)
          /\ OrmCreateAttr(k, u, n)
    \/ \E c \in AuthCallers \cap Users, k \in Kinds, ns \in AtomicNames :
          /\ recipe_next <= MaxFixtures
          /\ RecipeCreate(c, WithNames(BasicPayload("Curry"), k, ns))
    \/ \E c \in AuthCallers \cap Users, id \in 1..MaxFixtures, k \in Kinds,
          ns \in AtomicNames :
          RecipeUpdate(c, id, WithNames(NoPayload, k, ns), TRUE)
    \/ \E k \in Kinds, c \in AuthCallers \cap Users, id \in 1..MaxAttrs, n \in Names,
          partial \in BOOLEAN :
          AttrUpdate(k, c, id, NamePayload(n), partial)
    \/ \E k \in Kinds, c \in AuthCallers \cap Users, id \in 1..MaxAttrs :
          AttrDestroy(k, c, id)

SpecUnique == Init /\ [][NextUnique /\ UNCHANGED core]_vars

(***************************************************************************)
(* Accounts created through the user manager.                              *)
(***************************************************************************)
NextUser ==
    \E email \in Emails :
        /\ \/ email = <<>>
           \/ Cardinality(accounts \cup {normalize_email(email)}) <= MaxAccounts
        /\ create_user(email)

SpecUser == Init /\ [][NextUser /\ UNCHANGED <<api, command, database>>]_vars

(***************************************************************************)
(* The wait_for_db command running while the database server starts.  The  *)
(* command is a sequential process: whenever its next statement can run,   *)
(* it eventually does (time.sleep returns after a second).                 *)
(***************************************************************************)
NextCommand ==
    \/ wait_for_db_handle
    \/ \E outcome \in CheckOutcomes :
          /\ outcome = "ok" \/ Len(command.checks) < MaxChecks
          /\ wait_for_db_check(outcome)
    \/ wait_for_db_sleep

NextWait ==
    \/ NextCommand
    \/ DatabaseStarts

SpecWait ==
    /\ Init
    /\ [][NextWait /\ UNCHANGED <<api, accounts, user_call>>]_vars
    /\ WF_vars(NextCommand /\ UNCHANGED <<api, accounts, user_call>>)

(***************************************************************************)
(* C1.  A recipe owned by one user never appears in another user's recipe  *)
(* list, and another user's detail request for its id does not return it:  *)
(* every recipe a list or detail response carries is owned by the caller.  *)
(***************************************************************************)
C1_RecipesLimitedToUser ==
    (response.kind = "recipes" /\ response.op \in {"list", "retrieve"}) =>
        \A i \in 1..Len(response.result) :
            /\ response.result[i] \in DOMAIN recipes
            /\ recipes[response.result[i]].user = response.caller

C1_Witness ==
    /\ response.kind = "recipes"
    /\ response.op = "list"
    /\ response.status = HTTP_200_OK
    /\ Len(response.result) >= 1
    /\ \E id \in DOMAIN recipes : recipes[id].user # response.caller

(***************************************************************************)
(* C2.  An update or delete request that targets the id of a recipe owned  *)
(* by another user is answered not-found, and the store (the recipe, its   *)
(* fields and its associations) is left as it was.                         *)
(***************************************************************************)
C2_CrossUserWriteNotFound ==
    [][(/\ response'.kind = "recipes"
        /\ response'.op \in {"update", "partial_update", "destroy"}
        /\ response'.target \in DOMAIN recipes
        /\ recipes[response'.target].user # response'.caller)
       => (response'.status = HTTP_404_NOT_FOUND /\ UNCHANGED db)]_vars

C2_Witness ==
    /\ response.kind = "recipes"
    /\ response.op = "destroy"
    /\ response.status = HTTP_404_NOT_FOUND
    /\ response.target \in DOMAIN recipes
    /\ recipes[response.target].user # response.caller
    /\ \E l \in recipe_attrs[Tag] : l[1] = response.target

(***************************************************************************)
(* C4.  The owner of a recipe never changes after creation, whatever user  *)
(* an update payload names.                                                *)
(***************************************************************************)
C4_OwnerImmutable ==
    [][\A id \in DOMAIN recipes \cap DOMAIN recipes' :
          recipes'[id].user = recipes[id].user]_vars

C4_Witness ==
    /\ response.kind = "recipes"
    /\ response.op = "partial_update"
    /\ response.status = HTTP_200_OK
    /\ "user" \in response.payload.keys
    /\ response.target \in DOMAIN recipes
    /\ response.payload.user # recipes[response.target].user

(***************************************************************************)
(* C3.  A tag or ingredient list request by an authenticated user (no      *)
(* assigned-only filter) succeeds and returns exactly the rows of that     *)
(* kind owned by the caller, each once.                                    *)
(***************************************************************************)
C3_AttrsLimitedToUser ==
    (/\ response.kind \in Kinds
     /\ response.op = "list"
     /\ response.caller \in Users
     /\ ~response.params.assigned_only) =>
        /\ response.status = HTTP_200_OK
        /\ Range(response.result) =
              {id \in DOMAIN attrs[response.kind] :
                  attrs[response.kind][id].user = response.caller}
        /\ Len(response.result) = Cardinality(Range(response.result))

C3_Witness ==
    /\ response.kind \in Kinds
    /\ response.op = "list"
    /\ response.status = HTTP_200_OK
    /\ ~response.params.assigned_only
    /\ Len(response.result) >= 1
    /\ \E id \in DOMAIN attrs[response.kind] :
          attrs[response.kind][id].user # response.caller

IsRecipeWrite(r) ==
    /\ r.kind = "recipes"
    /\ r.op \in {"create", "update", "partial_update"}
    /\ r.status \in {HTTP_200_OK, HTTP_201_CREATED}

IsRecipeUpdate(r) ==
    /\ r.kind = "recipes"
    /\ r.op \in {"update", "partial_update"}
    /\ r.status = HTTP_200_OK

OwnedNamed(rows, user, name) ==
    {id \in DOMAIN rows : rows[id].user = user /\ rows[id].name = name}

Owned(rows, user) == {id \in DOMAIN rows : rows[id].user = user}

LinkedTo(links, rid) == {l[2] : l \in {x \in links : x[1] = rid}}

(***************************************************************************)
(* C5.  On a successful recipe create or update whose payload lists tag    *)
(* (or ingredient) names, every name with a record of the caller keeps     *)
(* exactly those records (none is created for it), every name has a        *)
(* record of the caller associated with the recipe after the request, the  *)
(* recipe's associations are all to records of the caller, and their       *)
(* number is the number of distinct names submitted.                       *)
(***************************************************************************)
C5_ReconcileByName ==
    [][IsRecipeWrite(response') =>
         \A k \in Kinds \cap response'.payload.keys :
            LET c == response'.caller
                rid == response'.target
                names == Range(response'.payload[k])
                linked == LinkedTo(recipe_attrs'[k], rid)
            IN  /\ \A n \in names :
                      /\ OwnedNamed(attrs[k], c, n) # {} =>
                            OwnedNamed(attrs'[k], c, n) = OwnedNamed(attrs[k], c, n)
                      /\ OwnedNamed(attrs'[k], c, n) \cap linked # {}
                /\ \A a \in linked : attrs'[k][a].user = c
                /\ Cardinality(linked) = Cardinality(names)]_vars

(***************************************************************************)
(* C6.  Reconciliation is idempotent: a successful recipe write creates    *)
(* at most one record of the caller for each name its payload lists, even  *)
(* when the name is listed twice; and when two successive updates of the   *)
(* same recipe submit the same set of names, the second leaves the number  *)
(* of tag (or ingredient) records the caller owns unchanged.               *)
(***************************************************************************)
C6_ReconcileIdempotent ==
    [][/\ IsRecipeWrite(response') =>
            \A k \in Kinds \cap response'.payload.keys :
               \A n \in Range(response'.payload[k]) :
                  Cardinality(OwnedNamed(attrs'[k], response'.caller, n))
                     <= Cardinality(OwnedNamed(attrs[k], response'.caller, n)) + 1
       /\ (/\ IsRecipeUpdate(response)
           /\ IsRecipeUpdate(response')
           /\ response'.target = response.target
           /\ response'.caller = response.caller
           /\ response'.payload.keys \cap Kinds = response.payload.keys \cap Kinds
           /\ \A k \in Kinds :
                 Range(response'.payload[k]) = Range(response.payload[k]))
          => \A k \in Kinds \cap response'.payload.keys :
                Cardinality(Owned(attrs'[k], response'.caller))
                   = Cardinality(Owned(attrs[k], response'.caller))]_vars

C6_Witness ==
    /\ IsRecipeUpdate(response)
    /\ \E k \in Kinds \cap response.payload.keys :
          /\ Len(response.payload[k]) >= 2
          /\ response.payload[k][1] = response.payload[k][2]
          /\ OwnedNamed(attrs[k], response.caller, response.payload[k][1]) # {}

(***************************************************************************)
(* C7.  After a successful recipe update whose payload lists tags (or      *)
(* ingredients), the recipe is associated with no record that the payload  *)
(* does not name; with an empty list it has no association of that kind.   *)
(***************************************************************************)
C7_UpdateReplacesAssociations ==
    IsRecipeUpdate(response) =>
        \A k \in Kinds \cap response.payload.keys :
            LET linked == LinkedTo(recipe_attrs[k], response.target) IN
            /\ \A a \in linked : attrs[k][a].name \in Range(response.payload[k])
            /\ response.payload[k] = <<>> => linked = {}

(***************************************************************************)
(* C8.  A recipe list request with a tags id-set and/or an ingredients     *)
(* id-set returns exactly the caller's recipes that are associated with    *)
(* at least one id of each given set, each once.                           *)
(***************************************************************************)
C8_FilterByAssociation ==
    (/\ response.kind = "recipes"
     /\ response.op = "list"
     /\ response.status = HTTP_200_OK
     /\ (response.params.tags # {} \/ response.params.ingredients # {})) =>
        /\ Range(response.result) =
              {r \in DOMAIN recipes :
                  /\ recipes[r].user = response.caller
                  /\ \A k \in Kinds :
                        \/ response.params[k] = {}
                        \/ LinkedTo(recipe_attrs[k], r) \cap response.params[k] # {}}
        /\ Len(response.result) = Cardinality(Range(response.result))

(***************************************************************************)
(* C9.  A tag or ingredient list request with the assigned-only filter     *)
(* returns exactly the caller's rows that are associated with at least     *)
(* one recipe, each once.                                                  *)
(***************************************************************************)
C9_AssignedOnly ==
    (/\ response.kind \in Kinds
     /\ response.op = "list"
     /\ response.status = HTTP_200_OK
     /\ response.params.assigned_only) =>
        /\ Range(response.result) =
              {a \in Owned(attrs[response.kind], response.caller) :
                  \E l \in recipe_attrs[response.kind] : l[2] = a}
        /\ Len(response.result) = Cardinality(Range(response.result))

(***************************************************************************)
(* C10.  A request to a recipe, tag or ingredient endpoint without valid   *)
(* authentication is answered unauthorized, carries no rows and leaves     *)
(* the store as it was.                                                    *)
(***************************************************************************)
C10_AuthRequired ==
    [][(response'.op \notin {"none", "orm"} /\ response'.caller \notin Users)
       => /\ response'.status = HTTP_401_UNAUTHORIZED
          /\ response'.result = <<>>
          /\ UNCHANGED db]_vars

C10_Witness ==
    /\ response.caller = Anonymous
    /\ response.op = "destroy"
    /\ response.kind = "recipes"
    /\ response.status = HTTP_401_UNAUTHORIZED
    /\ response.target \in DOMAIN recipes
    /\ \E k \in Kinds : recipe_attrs[k] # {}

(***************************************************************************)
(* C11.  A recipe create or update request, whose payload may name tags or *)
(* ingredients, is all-or-nothing: when the request fails (its response is *)
(* not a success status) no tag or ingredient record made during it        *)
(* persists and the recipes, their fields and their association sets are   *)
(* as they were before the request.                                        *)
(***************************************************************************)
C11_AllOrNothing ==
    [][(/\ response'.kind = "recipes"
        /\ response'.op \in {"create", "update", "partial_update"}
        /\ response'.status \notin {HTTP_200_OK, HTTP_201_CREATED})
       => UNCHANGED db]_vars

C11_Witness ==
    /\ response.kind = "recipes"
    /\ response.op = "update"
    /\ response.status = HTTP_400_BAD_REQUEST
    /\ response.target \in DOMAIN recipes
    /\ recipes[response.target].user = response.caller
    /\ \E k \in Kinds : k \in response.payload.keys /\ Len(response.payload[k]) >= 1
    /\ LinkedTo(recipe_attrs[Tag], response.target) # {}

C13_EmailNormalized ==
    (user_call.called /\ user_call.raised = "none" /\ "@" \in Range(user_call.email)) =>
        LET email == user_call.email
            stored == user_call.user
            at == CHOOSE i \in 1..Len(email) :
                     email[i] = "@" /\ \A j \in (i + 1)..Len(email) : email[j] # "@"
        IN  /\ stored \in accounts
            /\ Len(stored) = Len(email)
            /\ \A i \in 1..at : stored[i] = email[i]
            /\ \A i \in (at + 1)..Len(email) :
                  stored[i] = (IF email[i] = "A" THEN "a" ELSE email[i])

C13_Witness ==
    /\ user_call.called
    /\ user_call.raised = "none"
    /\ user_call.email = <<"A", "@", "A">>
    /\ <<"A", "@", "a">> \in accounts

(***************************************************************************)
(* C14.  Creating a user with an empty email always fails with an error    *)
(* and creates no account: the stored accounts are those before the call.  *)
(***************************************************************************)
C14_EmptyEmailRejected ==
    [][(user_call'.called /\ user_call'.email = <<>>)
       => (user_call'.raised = "ValueError" /\ accounts' = accounts)]_vars

C14_Witness ==
    /\ user_call.called
    /\ user_call.email = <<>>
    /\ user_call.raised = "ValueError"
    /\ accounts # {}

(***************************************************************************)
(* C15.  A recipe list response is in strictly descending id order, and a  *)
(* tag or ingredient list response is in descending name order, whatever   *)
(* order the records were created (or renamed) in.                         *)
(***************************************************************************)
C15_ListOrder ==
    (response.op = "list" /\ response.status = HTTP_200_OK) =>
        \A i \in 1..(Len(response.result) - 1) :
            IF response.kind = "recipes"
            THEN response.result[i] > response.result[i + 1]
            ELSE NameRank(attrs[response.kind][response.result[i]].name)
                    >= NameRank(attrs[response.kind][response.result[i + 1]].name)

\* A tag list of two rows in which the row created (or renamed) later comes
\* first, for a caller who also has two recipes to list.
C15_Witness ==
    /\ response.op = "list"
    /\ response.kind = Tag
    /\ response.status = HTTP_200_OK
    /\ Len(response.result) = 2
    /\ response.result[1] > response.result[2]
    /\ attrs[Tag][response.result[1]].name = "Vegan"
    /\ attrs[Tag][response.result[2]].name = "Dessert"
    /\ Cardinality(RecipeViewSet_get_queryset(recipes, response.caller)) >= 2

(***************************************************************************)
(* C16.  A successful recipe create stores a recipe whose owner is the     *)
(* authenticated caller, whatever the payload contains (a user key         *)
(* included), and whose title, time_minutes, price, description and link   *)
(* are the submitted values.                                               *)
(***************************************************************************)
C16_CreateStoresCallerAndFields ==
    (response.kind = "recipes" /\ response.op = "create"
        /\ response.status = HTTP_201_CREATED) =>
        /\ response.target \in DOMAIN recipes
        /\ recipes[response.target].user = response.caller
        /\ \A f \in {"title", "time_minutes", "price", "description", "link"} :
              f \in response.payload.keys =>
                  recipes[response.target][f] = response.payload[f]

C16_Witness ==
    /\ response.kind = "recipes"
    /\ response.op = "create"
    /\ response.status = HTTP_201_CREATED
    /\ "user" \in response.payload.keys
    /\ response.payload.user # response.caller
    /\ {"title", "time_minutes", "price", "description", "link"}
          \subseteq response.payload.keys
    /\ response.payload.time_minutes = 30

(***************************************************************************)
(* C19.  A successful PATCH of a recipe, tag or ingredient the caller owns *)
(* changes exactly the fields named in the payload: each named field of    *)
(* the record takes the payload's value, every other field and the owner   *)
(* keep their values, and no other record or association changes.          *)
(***************************************************************************)
C19_PatchFrame ==
    [][(response'.op = "partial_update" /\ response'.status = HTTP_200_OK) =>
        LET id == response'.target
            payload == response'.payload
        IN  IF response'.kind = "recipes"
            THEN /\ DOMAIN recipes' = DOMAIN recipes
                 /\ \A r \in DOMAIN recipes \ {id} : recipes'[r] = recipes[r]
                 /\ recipes[id].user = response'.caller
                 /\ recipes'[id].user = recipes[id].user
                 /\ \A f \in {"title", "time_minutes", "price", "description", "link"} :
                       recipes'[id][f] =
                           IF f \in payload.keys THEN payload[f] ELSE recipes[id][f]
                 /\ recipes'[id].image = recipes[id].image
                 /\ UNCHANGED <<attrs, recipe_attrs>>
            ELSE /\ DOMAIN attrs'[response'.kind] = DOMAIN attrs[response'.kind]
                 /\ \A a \in DOMAIN attrs[response'.kind] \ {id} :
                       attrs'[response'.kind][a] = attrs[response'.kind][a]
                 /\ attrs[response'.kind][id].user = response'.caller
                 /\ attrs'[response'.kind][id].user = attrs[response'.kind][id].user
                 /\ attrs'[response'.kind][id].name =
                       IF "name" \in payload.keys THEN payload.name
                       ELSE attrs[response'.kind][id].name
                 /\ attrs'[Other(response'.kind)] = attrs[Other(response'.kind)]
                 /\ UNCHANGED <<recipes, recipe_attrs>>]_vars

\* A PATCH that named the title only has changed the title of a recipe and
\* kept its other fields.
C19_Witness ==
    /\ response.kind = "recipes"
    /\ response.op = "partial_update"
    /\ response.status = HTTP_200_OK
    /\ response.payload.keys = {"title"}
    /\ recipes[response.target].title = "Pomelo"
    /\ recipes[response.target].time_minutes = 30
    /\ recipes[response.target].link = "http://example.com/new-recipe-link"

UniqueNames(rows) ==
    \A a \in DOMAIN rows, b \in DOMAIN rows :
        (rows[a].user = rows[b].user /\ rows[a].name = rows[b].name) => a = b

(***************************************************************************)
(* C17.  In every reachable state, after any sequence of recipe create /   *)
(* update requests and tag / ingredient rename and delete requests, no two *)
(* tag records of one owner have the same name, and likewise no two        *)
(* ingredient records.                                                     *)
(***************************************************************************)
C17_UniqueNames == \A k \in Kinds : UniqueNames(attrs[k])

(***************************************************************************)
(* C17, amended.  Recipe create / update requests and tag / ingredient     *)
(* delete requests never give an owner two records of one name: when the   *)
(* names are unique per owner before such a request they are unique after  *)
(* it.  (A rename is what can produce a duplicate.)                        *)
(***************************************************************************)
C17_WritesKeepUnique ==
    [][(\/ response'.kind = "recipes"
        \/ response'.op = "destroy")
       => \A k \in Kinds : UniqueNames(attrs[k]) => UniqueNames(attrs'[k])]_vars

\* A recipe update naming tags has been served to a user who has two tags.
C17_Witness ==
    /\ response.kind = "recipes"
    /\ response.op = "partial_update"
    /\ response.status = HTTP_200_OK
    /\ Tag \in response.payload.keys
    /\ Len(response.payload[Tag]) = 2
    /\ Cardinality(Owned(attrs[Tag], response.caller)) = 2
    /\ UniqueNames(attrs[Tag])

(***************************************************************************)
(* C18.  wait_for_db repeats the database check until one succeeds:        *)
(*  - it writes "Database available!" and returns only after a check that  *)
(*    raised nothing, and writes it last;                                  *)
(*  - after every check that raises the Psycopg2 or the Django             *)
(*    OperationalError it reports the database unavailable, sleeps and     *)
(*    checks again;                                                        *)
(*  - any other exception is not retried: the command ends there without   *)
(*    the success message;                                                 *)
(*  - once the database is available the command terminates.               *)
(***************************************************************************)
C18_WaitForDb ==
    /\ [](command.pc = "done" <=>
             (command.stdout # <<>> /\ command.stdout[Len(command.stdout)] = AVAILABLE))
    /\ [](AVAILABLE \in Range(command.stdout) =>
             /\ command.checks # <<>>
             /\ command.checks[Len(command.checks)] = "ok"
             /\ command.stdout[1] = WAITING)
    /\ [][(/\ Len(command'.checks) = Len(command.checks) + 1
           /\ command'.checks[Len(command'.checks)]
                 \in {"Psycopg2OpError", "OperationalError"})
          => (/\ command'.pc = "sleep"
              /\ command'.stdout = Append(command.stdout, UNAVAILABLE))]_vars
    /\ [][(command.pc = "sleep" /\ command' # command)
          => (/\ command'.pc = "check"
              /\ command'.stdout = command.stdout
              /\ command'.checks = command.checks)]_vars
    /\ []((/\ command.checks # <<>>
           /\ command.checks[Len(command.checks)]
                 \notin {"ok", "Psycopg2OpError", "OperationalError"})
          => (command.pc = "failed" /\ AVAILABLE \notin Range(command.stdout)))
    /\ [][command.pc \in {"failed", "done"} => command' = command]_vars
    /\ (database = "up") ~> (command.pc \in {"done", "failed"})

\* The command has returned after one failure of each kind and a good check.
C18_Witness ==
    /\ command.pc = "done"
    /\ command.checks = <<"Psycopg2OpError", "OperationalError", "ok">>
    /\ command.stdout = <<WAITING, UNAVAILABLE, UNAVAILABLE, AVAILABLE>>

====
